---- MODULE Spec2Model ----
(***************************************************************************)
(* A state-machine model of the portfolio page's scripts:                  *)
(*   src/script.js          ParticleBackground, AudioSystem, ThemeManager, *)
(*                          MobileNav, ContactForm, the DOMContentLoaded   *)
(*                          wiring and the visibilitychange listener;      *)
(*   src/unnamed/part_000   ThreeScene (the three.js background scene).    *)
(*                                                                         *)
(* Every handler is one atomic action: the browser runs a task to its end  *)
(* before the next one, and delivers MutationObserver callbacks            *)
(* (microtasks) before any later task or animation frame.                  *)
(***************************************************************************)
EXTENDS Integers, Sequences, FiniteSets, TLC

VARIABLES
    \* ---- the page and its environment
    domReady,           \* the DOMContentLoaded handler of script.js has run
    documentHidden,     \* document.hidden
    windowAudioSystem,  \* window.audioSystem, read by the visibilitychange listener
    lastEvent,          \* history: the handler that ran last, with what it saw before
    \* ---- AudioSystem (the one instance created by DOMContentLoaded)
    audioSupported,     \* the platform can construct an AudioContext
    audioSystem,        \* the instance's fields
    liveSources,        \* history: buffer sources started and not yet stopped
    nextSource,         \* history: identity of the next buffer source created
    toggleCalls,        \* history: number of AudioSystem.toggle() calls so far
    lastInvoked,        \* history: what the last toggle() invoked, play or pause
    \* ---- ThemeManager and the document's theme attribute
    dataTheme,          \* documentElement's data-theme attribute ("none" = absent)
    storedTheme,        \* localStorage item 'theme' ("none" = absent)
    prefersDark,        \* matchMedia('(prefers-color-scheme: dark)').matches
    themeManager,       \* the instance's fields
    \* ---- ThreeScene
    threeScene,         \* constructed flag and the two materials' colors
    mutationPending,    \* a data-theme mutation record awaits the observer callback
    lastRender,         \* history: what the last renderer.render() call drew
    \* ---- MobileNav
    mobileNav,          \* 'active' class of the toggle and of the menu
    navTrail,           \* history: the last two clicks, each with the state before it
    \* ---- ContactForm
    formFields,         \* content of the form's fields (0 = the reset state)
    submitButton,       \* textContent and disabled of the submit button
    resultDiv,          \* the banner: style.display, textContent and kind
    inFlight,           \* submit handlers suspended at an await
    timers,             \* expiry times of the pending hide timers
    now,                \* the clock, in seconds
    bannerShownAt,      \* history: when showMessage last displayed the banner
    \* ---- ParticleBackground
    field,              \* canvas size, pointer, particle list
    rng,                \* state of the generator behind Math.random()
    lastFill,           \* history: the clearing fill of the last animate()
    frames,             \* history: number of animate() frames after construction
    \* ---- the document's elements and what the components did with them
    elements,           \* the looked-up elements the document holds
    listeners,          \* the listeners and timers the components registered
    raised,             \* the sites where a handler or constructor threw
    navbar,             \* NavbarScroll: the nav bar's style.boxShadow
    logo,               \* LogoCycler: currentIndex and the logo shown
    \* ---- the scroll position and the active nav link
    pageYOffset,        \* window.pageYOffset
    sections,           \* the section[id] elements in document order: id, offsetTop
    navLinks            \* the .nav-link elements: href and style.color

pageVars  == <<domReady, documentHidden, windowAudioSystem, lastEvent>>
audioVars == <<audioSupported, audioSystem, liveSources, nextSource, toggleCalls, lastInvoked>>
themeVars == <<dataTheme, storedTheme, prefersDark, themeManager>>
sceneVars == <<threeScene, mutationPending, lastRender>>
navVars   == <<mobileNav, navTrail>>
formVars  == <<formFields, submitButton, resultDiv, inFlight, timers, now, bannerShownAt>>
fieldVars == <<field, rng, lastFill, frames>>
docVars   == <<elements, listeners, raised, navbar, logo>>
scrollVars == <<pageYOffset, sections, navLinks>>
vars == <<pageVars, audioVars, themeVars, sceneVars, navVars, formVars, fieldVars,
          docVars, scrollVars>>

(***************************************************************************)
(* Bounds of the model.                                                    *)
(***************************************************************************)
\* AudioSystem.toggle() calls explored
MaxCalls == 5
\* seconds of clock time explored
MaxTime == 6
\* submit handlers suspended at an await at the same time
MaxInFlight == 2
\* grid points per pixel: positions and velocities are held on this grid
Scale == 5
\* animate() frames explored after construction
MaxFrames == 2
\* particle sets explored (construction and resizes)
MaxGenerations == 2

(***************************************************************************)
(* AudioSystem                                         src/script.js 119-244 *)
(***************************************************************************)
\* The states a freshly constructed AudioContext can be in: suspended under an
\* autoplay policy (no user gesture yet), running otherwise.
NewContextStates == {"suspended", "running"}

\* constructor(), before initAudio(): every field null, not playing, muted.
\* audioContext is "null" or the context's state; source is 0 (null) or the
\* identity of a buffer source.
NewAudioSystem ==
    [audioContext |-> "null", audioBuffer |-> FALSE, source |-> 0,
     gainNode |-> FALSE, isPlaying |-> FALSE, isMuted |-> TRUE]

\* initAudio(): constructs the context and the gain node; when the platform has
\* no AudioContext the constructor call throws, the catch logs, and the fields
\* stay null.  st is the state the new context starts in.
initAudio(a, st) ==
    IF audioSupported
    THEN [a EXCEPT !.audioContext = st, !.gainNode = TRUE]
    ELSE a

\* createAmbientSound(): returns early without a context, else fills the buffer.
createAmbientSound(a) ==
    IF a.audioContext = "null" THEN a ELSE [a EXCEPT !.audioBuffer = TRUE]

\* A variant of play() that starts a new source even while one is playing.
playRestarting(a, st, h) ==
    LET a1 == IF a.audioContext = "null" THEN initAudio(a, st) ELSE a
        a2 == IF ~a1.audioBuffer THEN createAmbientSound(a1) ELSE a1
    IN  IF a2.audioBuffer
        THEN [a2 EXCEPT !.source = h, !.isPlaying = TRUE]
        ELSE a2

\* play(): lazily creates context and buffer, asks a suspended context to
\* resume, and, only when not playing and a buffer exists, creates and starts
\* source h.
play(a, st, h) ==
    LET a1 == IF a.audioContext = "null" THEN initAudio(a, st) ELSE a
        a2 == IF ~a1.audioBuffer THEN createAmbientSound(a1) ELSE a1
        a3 == IF a2.audioContext = "suspended"
              THEN [a2 EXCEPT !.audioContext = "resuming"] ELSE a2
    IN  IF ~a3.isPlaying /\ a3.audioBuffer
        THEN [a3 EXCEPT !.source = h, !.isPlaying = TRUE]
        ELSE a3

\* pause(): only with a source held and playing: stop it (a throw is
\* swallowed), drop it, clear isPlaying.
pause(a) ==
    IF a.source # 0 /\ a.isPlaying
    THEN [a EXCEPT !.source = 0, !.isPlaying = FALSE]
    ELSE a

\* The branch toggle() takes: play() when muted, pause() otherwise.
Invoked(a) ==
    IF a.isMuted THEN "play" ELSE "pause"

\* A variant of toggle() that forgets to flip isMuted.
toggleKeepsMuted(a, st, h) ==
    IF Invoked(a) = "play" THEN play(a, st, h) ELSE pause(a)

\* toggle(): play() or pause(), then isMuted = !isMuted.
toggle(a, st, h) ==
    LET b == IF Invoked(a) = "play" THEN play(a, st, h) ELSE pause(a)
    IN  [b EXCEPT !.isMuted = ~a.isMuted]

\* The visibilitychange listener: it looks the instance up in
\* window.audioSystem and pauses it when the document is hidden and it plays.
visibilityHandler(a, hidden) ==
    IF windowAudioSystem = "undefined" THEN a
    ELSE IF hidden /\ a.isPlaying THEN pause(a)
    ELSE a

\* The sources started and not stopped after a call that took the instance
\* from a to b: source.stop() is called only where source becomes null (in
\* pause()), source.start(0) where a new source is stored (in play()).
SourcesAfter(a, b) ==
    (IF a.source # 0 /\ b.source = 0 THEN liveSources \ {a.source} ELSE liveSources)
        \cup (IF b.source # 0 /\ b.source # a.source THEN {b.source} ELSE {})

(***************************************************************************)
(* ThemeManager                                      src/script.js 249-270 *)
(***************************************************************************)
\* constructor(): currentTheme = localStorage.getItem('theme') || 'light'.
NewThemeManager ==
    [currentTheme |-> IF storedTheme = "none" THEN "light" ELSE storedTheme]

\* The DOMContentLoaded preload: with a dark system preference and nothing
\* stored, currentTheme becomes 'dark' (init() then rewrites the attribute).
preloadTheme(t) ==
    IF prefersDark /\ storedTheme = "none" THEN [t EXCEPT !.currentTheme = "dark"] ELSE t

\* A variant of the flip in toggle() that maps both themes to 'dark'.
flipToDark(t) ==
    [t EXCEPT !.currentTheme = "dark"]

\* The flip in toggle(): 'light' becomes 'dark', anything else 'light'.
flipTheme(t) ==
    [t EXCEPT !.currentTheme = IF t.currentTheme = "light" THEN "dark" ELSE "light"]

\* documentElement.setAttribute('data-theme', v): the attribute changes and,
\* once ThreeScene observes the element, a mutation record is queued.
SetDataTheme(v) ==
    /\ dataTheme' = v
    /\ mutationPending' = (mutationPending \/ threeScene.constructed)

(***************************************************************************)
(* ThreeScene                                        src/unnamed/part_000  *)
(***************************************************************************)
AccentDark  == 6514417   \* 0x6366f1
AccentLight == 9133302   \* 0x8b5cf6

\* isDark ? 0x6366f1 : 0x8b5cf6, with isDark read from the attribute.
AccentFor(theme) ==
    IF theme = "dark" THEN AccentDark ELSE AccentLight

\* A variant of updateTheme() that recolors the mesh only.
updateThemeMeshOnly(s) ==
    [s EXCEPT !.meshColor = AccentFor(dataTheme)]

\* updateTheme(): both materials take the accent of the current attribute.
updateTheme(s) ==
    [s EXCEPT !.meshColor = AccentFor(dataTheme),
              !.particlesColor = AccentFor(dataTheme)]

\* createScene(): both materials are built with the accent of the attribute
\* as it is at construction.
createScene ==
    [constructed |-> TRUE, meshColor |-> AccentFor(dataTheme),
     particlesColor |-> AccentFor(dataTheme)]

\* renderer.render(scene, camera): what a frame shows.
Rendered(s) ==
    [theme |-> dataTheme, mesh |-> s.meshColor, particles |-> s.particlesColor]

(***************************************************************************)
(* MobileNav                                         src/script.js 337-368 *)
(***************************************************************************)
\* Where a click can land, as the three listeners see it.
ClickTargets == {"toggle", "link", "menu", "outside"}

\* The toggle's listener: classList.toggle('active') on both elements.
navToggleClick(n) ==
    [n EXCEPT !.toggleActive = ~n.toggleActive, !.menuActive = ~n.menuActive]

\* A menu link's listener: classList.remove('active') on both elements.
navLinkClick(n) ==
    [n EXCEPT !.toggleActive = FALSE, !.menuActive = FALSE]

\* A variant of the document listener that closes the menu only.
navDocumentClickMenuOnly(n, target) ==
    IF target = "outside" THEN [n EXCEPT !.menuActive = FALSE] ELSE n

\* The document listener: a target outside both elements closes both.
navDocumentClick(n, target) ==
    IF target = "outside"
    THEN [n EXCEPT !.toggleActive = FALSE, !.menuActive = FALSE]
    ELSE n

\* One click at target: the target's own listener, then the document's.
navClick(n, target) ==
    LET n1 == IF target = "toggle" THEN navToggleClick(n)
              ELSE IF target = "link" THEN navLinkClick(n)
              ELSE n
    IN  navDocumentClick(n1, target)

\* The trail keeps the last two clicks.
Trail(t, target, before) ==
    LET u == Append(t, [target |-> target, before |-> before])
    IN  IF Len(u) > 2 THEN Tail(u) ELSE u

(***************************************************************************)
(* ParticleBackground                                  src/script.js 4-114 *)
(*                                                                         *)
(* Lengths are integers on a grid of Scale points per pixel.  Math.random() *)
(* is a generator with hidden state: a linear congruential generator on    *)
(* 64 values, whose state s stands for the value s/64 of [0, 1).           *)
(***************************************************************************)
particleCount == 50
MouseRadius == 150

\* The canvas element's offsetWidth and offsetHeight, in pixels, and where
\* the pointer can be, in pixels.
CanvasSizes == {<<200, 120>>, <<300, 200>>, <<400, 240>>}
MousePoints == {<<150, 100>>, <<30, 170>>}
Seeds == {0, 13, 42}

NoMouse == [over |-> FALSE, x |-> 0, y |-> 0]

\* One step of the generator behind Math.random().
Lcg(s) ==
    (5 * s + 3) % 64

\* The generator's orbit from state 0 (it has full period), a state's place
\* on it, and the state k steps after s.
RECURSIVE OrbitFrom(_, _)
OrbitFrom(s, n) ==
    IF n = 0 THEN <<>> ELSE <<s>> \o OrbitFrom(Lcg(s), n - 1)

LcgOrbit ==
    OrbitFrom(0, 64)

LcgIndex ==
    [s \in 0..63 |-> CHOOSE k \in 1..64 : LcgOrbit[k] = s]

Advance(s, k) ==
    LcgOrbit[((LcgIndex[s] - 1 + k) % 64) + 1]

\* Integer division rounding toward zero, division rounding to the nearest
\* integer (a tie toward zero), and the integer square root: the grid's
\* versions of a real quotient and of Math.sqrt.
TruncDiv(a, b) ==
    IF a >= 0 THEN a \div b ELSE -((-a) \div b)

RoundDiv(a, b) ==
    IF a >= 0 THEN (2 * a + b - 1) \div (2 * b) ELSE -((2 * (-a) + b - 1) \div (2 * b))

RECURSIVE SqrtBetween(_, _, _)
SqrtBetween(n, lo, hi) ==
    IF lo >= hi THEN lo
    ELSE LET mid == (lo + hi + 1) \div 2
         IN  IF mid * mid <= n THEN SqrtBetween(n, mid, hi)
             ELSE SqrtBetween(n, lo, mid - 1)

Sqrt(n) ==
    SqrtBetween(n, 0, 8192)

\* Math.random() * n for a length n on the grid.
RandomTimes(s, n) ==
    (s * n) \div 64

\* (Math.random() - 0.5) * 0.5 pixels, on the grid.
RandomVelocity(s) ==
    RoundDiv((2 * s - 64) * Scale, 4 * 64)

\* One particle of createParticles(), from five successive draws after
\* generator state s, for a canvas of w by h; born tags the set it belongs to.
NewParticle(s, w, h, born) ==
    [x      |-> RandomTimes(Advance(s, 1), w),
     y      |-> RandomTimes(Advance(s, 2), h),
     vx     |-> RandomVelocity(Advance(s, 3)),
     vy     |-> RandomVelocity(Advance(s, 4)),
     radius |-> RandomTimes(Advance(s, 5), 2 * Scale) + Scale,
     nan    |-> FALSE,
     born   |-> born,
     frame  |-> [near |-> FALSE, offset |-> <<0, 0>>, velocity |-> <<0, 0>>,
                 push |-> <<0, 0>>, pushDen |-> 0]]

\* The particles a loop of particleCount push() calls adds, drawing from
\* generator state s on.
PushedParticles(s, w, h, born) ==
    [i \in 1..particleCount |-> NewParticle(Advance(s, 5 * (i - 1)), w, h, born)]

\* A variant of createParticles() that keeps the particles it had.
createParticlesAppending(old, s, w, h, born) ==
    old \o PushedParticles(s, w, h, born)

\* createParticles(): empties the list and pushes particleCount particles.
createParticles(old, s, w, h, born) ==
    PushedParticles(s, w, h, born)

\* A variant of the repulsion that pulls the particle toward the pointer.
PushNumeratorToward(d, distance) ==
    -(2 * d * (MouseRadius * Scale - distance))

\* The repulsion along one axis, (d / distance) * force * 2 pixels with
\* force = (radius - distance) / radius, as a fraction on the grid: this
\* numerator over PushDenominator.  d is pointer minus particle.
PushNumerator(d, distance) ==
    2 * d * (MouseRadius * Scale - distance)

PushDenominator(distance) ==
    distance * MouseRadius

\* One particle's step in animate(): add the velocity; reflect the velocity
\* beyond an edge; within the pointer's radius subtract the repulsion.
\* A particle that sits exactly on the pointer divides 0 by 0: its position
\* becomes NaN, which every later comparison and sum leaves alone.
\* The frame field records the step: whether the particle started within
\* the radius of a pointer, its offset from the pointer and its velocity at
\* the start, and the repulsion applied (a fraction; pushDen = 0 for none).
stepParticle(p, mouse, w, h) ==
    LET x1  == p.x + p.vx
        y1  == p.y + p.vy
        vx1 == IF x1 < 0 \/ x1 > w THEN -p.vx ELSE p.vx
        vy1 == IF y1 < 0 \/ y1 > h THEN -p.vy ELSE p.vy
        dx  == mouse.x - x1
        dy  == mouse.y - y1
        distance == Sqrt(dx * dx + dy * dy)
        sx  == p.x - mouse.x
        sy  == p.y - mouse.y
        near == mouse.over /\ sx * sx + sy * sy < (MouseRadius * Scale) * (MouseRadius * Scale)
        rec(pn, pd) == [near |-> near,
                        offset |-> IF mouse.over THEN <<sx, sy>> ELSE <<0, 0>>,
                        velocity |-> <<p.vx, p.vy>>, push |-> pn, pushDen |-> pd]
    IN  IF p.nan THEN [p EXCEPT !.frame = rec(<<0, 0>>, 0)]
        ELSE IF mouse.over /\ distance < MouseRadius * Scale
        THEN IF distance = 0
             THEN [p EXCEPT !.x = x1, !.y = y1, !.vx = vx1, !.vy = vy1, !.nan = TRUE,
                            !.frame = rec(<<0, 0>>, 0)]
             ELSE [p EXCEPT
                     !.x = x1 - TruncDiv(PushNumerator(dx, distance), PushDenominator(distance)),
                     !.y = y1 - TruncDiv(PushNumerator(dy, distance), PushDenominator(distance)),
                     !.vx = vx1, !.vy = vy1,
                     !.frame = rec(<<-PushNumerator(dx, distance), -PushNumerator(dy, distance)>>,
                                   PushDenominator(distance))]
        ELSE [p EXCEPT !.x = x1, !.y = y1, !.vx = vx1, !.vy = vy1,
                       !.frame = rec(<<0, 0>>, 0)]

\* The forEach of animate() over the particle list.
stepParticles(ps, mouse, w, h) ==
    [i \in 1..Len(ps) |-> stepParticle(ps[i], mouse, w, h)]

\* The clearing fill of animate(): the tint follows the attribute as read at
\* this frame.
clearingFill(theme) ==
    [theme |-> theme,
     tint |-> IF theme = "dark" THEN "rgba(10, 11, 15, 0.1)" ELSE "rgba(255, 255, 255, 0.1)"]

\* new ParticleBackground(canvas): init() sizes the canvas and creates the
\* particles, animate() runs the first frame (no pointer yet), and the
\* listeners are registered.  Each particle's fill draws one random number.
ParticleConstruct ==
    /\ ~field.constructed
    /\ ~mutationPending
    /\ \E seed \in Seeds, size \in CanvasSizes :
         LET w == size[1] * Scale
             h == size[2] * Scale
             ps == createParticles(<<>>, seed, w, h, 1)
         IN  /\ field' = [constructed |-> TRUE, width |-> w, height |-> h,
                          mouse |-> NoMouse, generation |-> 1,
                          particles |-> stepParticles(ps, NoMouse, w, h)]
             /\ rng' = Advance(seed, 5 * particleCount + Len(ps))
    /\ lastFill' = clearingFill(dataTheme)
    /\ lastEvent' = [kind |-> "construct", pre |-> "none"]
    /\ UNCHANGED <<domReady, documentHidden, windowAudioSystem, audioVars, themeVars,
                   sceneVars, navVars, formVars, frames,
                   docVars, scrollVars>>

\* The window's resize listener: resizeCanvas(), then createParticles().
ParticleResize ==
    /\ field.constructed
    /\ ~mutationPending
    /\ field.generation < MaxGenerations
    /\ \E size \in CanvasSizes :
         LET w == size[1] * Scale
             h == size[2] * Scale
         IN  field' = [field EXCEPT
                         !.width = w, !.height = h,
                         !.generation = field.generation + 1,
                         !.particles = createParticles(field.particles, rng, w, h,
                                                       field.generation + 1)]
    /\ rng' = Advance(rng, 5 * particleCount)
    /\ lastEvent' = [kind |-> "resize", pre |-> field.generation]
    /\ UNCHANGED <<domReady, documentHidden, windowAudioSystem, audioVars, themeVars,
                   sceneVars, navVars, formVars, lastFill, frames,
                   docVars, scrollVars>>

\* The canvas's mousemove listener: the pointer is at e.x, e.y.
ParticleMouseMove ==
    /\ field.constructed
    /\ ~mutationPending
    /\ \E m \in MousePoints :
         field' = [field EXCEPT !.mouse = [over |-> TRUE, x |-> m[1] * Scale,
                                           y |-> m[2] * Scale]]
    /\ lastEvent' = [kind |-> "mousemove", pre |-> field.mouse.over]
    /\ UNCHANGED <<domReady, documentHidden, windowAudioSystem, audioVars, themeVars,
                   sceneVars, navVars, formVars, rng, lastFill, frames,
                   docVars, scrollVars>>

\* The canvas's mouseleave listener: the pointer is null again.
ParticleMouseLeave ==
    /\ field.constructed
    /\ ~mutationPending
    /\ field.mouse.over
    /\ field' = [field EXCEPT !.mouse = NoMouse]
    /\ lastEvent' = [kind |-> "mouseleave", pre |-> TRUE]
    /\ UNCHANGED <<domReady, documentHidden, windowAudioSystem, audioVars, themeVars,
                   sceneVars, navVars, formVars, rng, lastFill, frames,
                   docVars, scrollVars>>

\* An animation frame of the particle field: animate().
ParticleAnimate ==
    /\ field.constructed
    /\ ~mutationPending
    /\ frames < MaxFrames
    /\ frames' = frames + 1
    /\ field' = [field EXCEPT !.particles =
                    stepParticles(field.particles, field.mouse, field.width, field.height)]
    /\ rng' = Advance(rng, Len(field.particles))
    /\ lastFill' = clearingFill(dataTheme)
    /\ lastEvent' = [kind |-> "animate", pre |-> field.mouse.over]
    /\ UNCHANGED <<domReady, documentHidden, windowAudioSystem, audioVars, themeVars,
                   sceneVars, navVars, formVars,
                   docVars, scrollVars>>

(***************************************************************************)
(* ContactForm                                       src/script.js 373-436 *)
(***************************************************************************)
InitialLabel == "Send Message"
SendingLabel == "Sending..."
SuccessText  == "Thank you for your message! I will get back to you soon."
ErrorText    == "Oops! Something went wrong. Please try again."
\* setTimeout(..., 5000), in seconds
BannerDelay == 5

\* What the form's fields hold: the reset state, or something typed.
FieldContents == {"", "typed"}

\* How the POST can end: fetch rejects; or the body fails to parse as JSON;
\* or it parses and its success flag is true, or is not.
FetchOutcomes == {"rejected", "resolved"}
BodyOutcomes  == {"success", "failure", "unparsable"}

\* The first statements of the submit handler: remember the button's text,
\* label it 'Sending...', disable it.
beginSubmit(b) ==
    [b EXCEPT !.textContent = SendingLabel, !.disabled = TRUE]

\* The finally block: the remembered text back, the button enabled.
restoreButton(b, originalText) ==
    [b EXCEPT !.textContent = originalText, !.disabled = FALSE]

\* A variant of the handler's outcome mapping that reports an unparsable body
\* as a success.
bannerTypeLenient(outcome) ==
    IF outcome \in {"success", "unparsable"} THEN "success" ELSE "error"

\* Which banner the handler shows: 'success' only for a parsed body with a
\* true success flag; the else branch and the catch block both show 'error'.
bannerType(outcome) ==
    IF outcome = "success" THEN "success" ELSE "error"

\* showMessage(message, type) without its timer: nothing without the banner
\* element, else text, display and the background of the type.
showMessage(r, type) ==
    IF ~r.present THEN r
    ELSE [r EXCEPT !.textContent = IF type = "success" THEN SuccessText ELSE ErrorText,
                   !.display = "block",
                   !.background = IF type = "success" THEN "#10b981" ELSE "#ef4444"]

\* The timer showMessage() starts: one more expiry, BannerDelay from now; the
\* earlier timers stay.  (Two timers expiring at the same time act as one.)
hideTimers(r, ts, t) ==
    IF ~r.present THEN ts ELSE ts \cup {t + BannerDelay}

\* form.reset() after a success; the fields stay as they are otherwise.
fieldsAfter(f, outcome) ==
    IF outcome = "success" THEN "" ELSE f

\* The handler from the point where its POST has ended with outcome, for the
\* handler at position i of inFlight: banner, form, and the finally block.
FinishSubmit(i, outcome) ==
    /\ resultDiv' = showMessage(resultDiv, bannerType(outcome))
    /\ timers' = hideTimers(resultDiv, timers, now)
    /\ bannerShownAt' = IF resultDiv.present THEN now ELSE bannerShownAt
    /\ formFields' = fieldsAfter(formFields, outcome)
    /\ submitButton' = restoreButton(submitButton, inFlight[i].originalText)
    /\ inFlight' = SubSeq(inFlight, 1, i - 1) \o SubSeq(inFlight, i + 1, Len(inFlight))
    /\ lastEvent' = [kind |-> "settled",
                     pre |-> [outcome |-> outcome, fields |-> formFields,
                              others |-> Len(inFlight) - 1]]

\* The user edits the form.
FormEdit ==
    /\ domReady
    /\ "contactForm" \in elements
    /\ \E f \in FieldContents \ {formFields} : formFields' = f
    /\ lastEvent' = [kind |-> "edit", pre |-> formFields]
    /\ UNCHANGED <<domReady, documentHidden, windowAudioSystem, audioVars, themeVars,
                   sceneVars, navVars, submitButton, resultDiv, inFlight, timers, now,
                   bannerShownAt, fieldVars,
                   docVars, scrollVars>>

\* A submit event: the handler runs up to its first await (the fetch).
\* Without a button[type="submit"] in the form, querySelector gives null and
\* reading submitButton.textContent throws before anything else happens.
SubmitEvent ==
    /\ "ContactForm.submit" \in listeners
    /\ Len(inFlight) < MaxInFlight
    /\ IF "button[type=submit]" \in elements
       THEN /\ inFlight' = Append(inFlight, [originalText |-> submitButton.textContent,
                                            stage |-> "fetch"])
            /\ submitButton' = beginSubmit(submitButton)
            /\ raised' = raised
       ELSE /\ raised' = raised \cup {"ContactForm.submit"}
            /\ UNCHANGED <<inFlight, submitButton>>
    /\ lastEvent' = [kind |-> "submit", pre |-> submitButton.textContent]
    /\ UNCHANGED <<domReady, documentHidden, windowAudioSystem, audioVars, themeVars,
                   sceneVars, navVars, formFields, resultDiv, timers, now,
                   bannerShownAt, fieldVars,
                   elements, listeners, navbar, logo, scrollVars>>

\* The fetch promise settles: rejected, the catch block runs; resolved, the
\* handler goes on to await response.json().
FetchSettles ==
    /\ \E i \in 1..Len(inFlight), outcome \in FetchOutcomes :
         /\ inFlight[i].stage = "fetch"
         /\ IF outcome = "rejected"
            THEN FinishSubmit(i, "rejected")
            ELSE /\ inFlight' = [inFlight EXCEPT ![i].stage = "json"]
                 /\ lastEvent' = [kind |-> "response", pre |-> "none"]
                 /\ UNCHANGED <<formFields, submitButton, resultDiv, timers, bannerShownAt>>
    /\ UNCHANGED <<domReady, documentHidden, windowAudioSystem, audioVars, themeVars,
                   sceneVars, navVars, now, fieldVars,
                   docVars, scrollVars>>

\* The response.json() promise settles, and the handler runs to its end.
JsonSettles ==
    /\ \E i \in 1..Len(inFlight), outcome \in BodyOutcomes :
         /\ inFlight[i].stage = "json"
         /\ FinishSubmit(i, outcome)
    /\ UNCHANGED <<domReady, documentHidden, windowAudioSystem, audioVars, themeVars,
                   sceneVars, navVars, now, fieldVars,
                   docVars, scrollVars>>

\* A hide timer expires: resultDiv.style.display = 'none'.
HideTimerFires ==
    /\ now \in timers
    /\ timers' = timers \ {now}
    /\ resultDiv' = [resultDiv EXCEPT !.display = "none"]
    /\ lastEvent' = [kind |-> "hideTimer", pre |-> resultDiv.display]
    /\ UNCHANGED <<domReady, documentHidden, windowAudioSystem, audioVars, themeVars,
                   sceneVars, navVars, formFields, submitButton, inFlight, now,
                   bannerShownAt, fieldVars,
                   docVars, scrollVars>>

\* A second passes; a timer that is due runs before the clock moves on.
Tick ==
    /\ now < MaxTime
    /\ now \notin timers
    /\ now' = now + 1
    /\ lastEvent' = [kind |-> "tick", pre |-> now]
    /\ UNCHANGED <<domReady, documentHidden, windowAudioSystem, audioVars, themeVars,
                   sceneVars, navVars, formFields, submitButton, resultDiv, inFlight,
                   timers, bannerShownAt, fieldVars,
                   docVars, scrollVars>>

(***************************************************************************)
(* The looked-up elements, NavbarScroll, LogoCycler and the active nav     *)
(* link                                     src/script.js 337-530, 566-586 *)
(***************************************************************************)
\* The elements the components look up: MobileNav (#mobileToggle, .nav-menu),
\* ContactForm (#contactForm, #form-result, the form's submit button),
\* NavbarScroll (.nav), LogoCycler (#logo), ThreeScene (#three-container).
Lookups ==
    {"mobileToggle", ".nav-menu", "contactForm", "form-result",
     "button[type=submit]", ".nav", "logo", "three-container"}

\* MobileNav.init: the click listeners, unless the toggle or the menu is
\* missing.
MobileNavInit(els) ==
    IF "mobileToggle" \in els /\ ".nav-menu" \in els THEN {"MobileNav.click"} ELSE {}

\* ContactForm.init: the submit listener, unless the form is missing.
ContactFormInit(els) ==
    IF "contactForm" \in els THEN {"ContactForm.submit"} ELSE {}

\* NavbarScroll.init: the scroll listener, unless the nav bar is missing.
NavbarScrollInit(els) ==
    IF ".nav" \in els THEN {"NavbarScroll.scroll"} ELSE {}

\* The number of entries of LogoCycler.logos.
LogoCount == 4

\* LogoCycler.updateLogo: the logo element shows logos[currentIndex].
updateLogo(lg) ==
    [lg EXCEPT !.shown = lg.currentIndex]

\* LogoCycler.cycle: the next index, wrapping, then updateLogo().
cycle(lg) ==
    updateLogo([lg EXCEPT !.currentIndex = (lg.currentIndex + 1) % LogoCount])

\* LogoCycler.init: nothing without the logo element; else the first logo at
\* once and the timeout that will start the interval.
LogoCyclerInit(els) ==
    IF "logo" \in els THEN {"LogoCycler.timeout"} ELSE {}

\* The nav bar's scroll listener: a shadow past 100 pixels.
ShadowOffset == 100

navbarOnScroll(nb, y) ==
    [nb EXCEPT !.boxShadow = IF y > ShadowOffset THEN "var(--shadow-md)" ELSE "none"]

\* The look-ahead of the active-link listener, in pixels.
Lookahead == 200

\* sections.forEach of the active-link listener: every section whose top minus
\* the look-ahead is at or below the offset overwrites current with its id.
RECURSIVE scanSections(_, _, _)
scanSections(secs, y, current) ==
    IF secs = <<>> THEN current
    ELSE scanSections(Tail(secs), y,
                      IF y >= Head(secs).top - Lookahead THEN Head(secs).id ELSE current)

\* The href the listener compares with: `#${current}`.
hrefOf(current) ==
    "#" \o current

\* The listener's comparison of a link's href with the current section.
linkMatches(href, current) ==
    href = hrefOf(current)

\* navLinks.forEach of the active-link listener: each link's color is cleared,
\* then set to the accent when its href is '#' followed by current.
highlight(links, current) ==
    [i \in 1..Len(links) |->
        [links[i] EXCEPT !.color = IF linkMatches(links[i].href, current)
                                   THEN "var(--accent-primary)" ELSE ""]]

\* The offsets a scroll event can report.
ScrollOffsets == {0, 100, 101, 399, 400, 1000, 1200}

\* The sections of the document, in document order, as layouts to choose from:
\* the page's three sections; a first section that starts below the
\* look-ahead; tops that do not grow with document order; a section whose id
\* attribute is empty; no section at all.
SectionLayouts ==
    { <<[id |-> "home", top |-> 0], [id |-> "about", top |-> 600],
        [id |-> "contact", top |-> 1200]>>,
      <<[id |-> "home", top |-> 300], [id |-> "about", top |-> 600]>>,
      <<[id |-> "about", top |-> 600], [id |-> "home", top |-> 0]>>,
      <<[id |-> "", top |-> 0], [id |-> "about", top |-> 600]>>,
      <<>> }

\* The hrefs of the .nav-link elements, as lists to choose from.
LinkLists ==
    { <<"#home", "#about", "#contact">>,
      <<"#", "#about", "#about">>,
      <<"#home", "about.html">> }

\* The layout the other components are explored with.
PageSections ==
    <<[id |-> "home", top |-> 0], [id |-> "about", top |-> 600],
      [id |-> "contact", top |-> 1200]>>

PageLinks ==
    <<"#home", "#about", "#contact">>

\* The click targets the document offers: the toggle and the menu's content
\* only when those elements exist.
TargetsPresent(els) ==
    {t \in ClickTargets : /\ t = "toggle" => "mobileToggle" \in els
                          /\ t \in {"link", "menu"} => ".nav-menu" \in els}

\* A click at target, run through the listeners MobileNav registered, if any.
dispatchClick(n, target, ls) ==
    IF "MobileNav.click" \in ls THEN navClick(n, target) ELSE n

\* A click on another control, as it reaches MobileNav's document listener, if
\* registered.
dispatchDocumentClick(n, target, ls) ==
    IF "MobileNav.click" \in ls THEN navDocumentClick(n, target) ELSE n

\* A scroll event: the listener of NavbarScroll, if registered, then the
\* active-link listener the DOMContentLoaded handler registered.
Scroll ==
    /\ domReady
    /\ ~mutationPending
    /\ \E y \in ScrollOffsets \ {pageYOffset} :
         /\ pageYOffset' = y
         /\ navbar' = IF "NavbarScroll.scroll" \in listeners
                      THEN navbarOnScroll(navbar, y) ELSE navbar
         /\ navLinks' = highlight(navLinks, scanSections(sections, y, ""))
    /\ lastEvent' = [kind |-> "scroll", pre |-> pageYOffset]
    /\ UNCHANGED <<domReady, documentHidden, windowAudioSystem, audioVars, themeVars,
                   sceneVars, navVars, formVars, fieldVars,
                   elements, listeners, raised, logo, sections>>

\* The 500 ms timeout of LogoCycler.init fires: setInterval(cycle, 3000).
LogoTimeout ==
    /\ "LogoCycler.timeout" \in listeners
    /\ listeners' = (listeners \ {"LogoCycler.timeout"}) \cup {"LogoCycler.interval"}
    /\ lastEvent' = [kind |-> "logoTimeout", pre |-> logo.currentIndex]
    /\ UNCHANGED <<domReady, documentHidden, windowAudioSystem, audioVars, themeVars,
                   sceneVars, navVars, formVars, fieldVars,
                   elements, raised, navbar, logo, scrollVars>>

\* The interval of LogoCycler fires: cycle().
LogoCycle ==
    /\ "LogoCycler.interval" \in listeners
    /\ logo' = cycle(logo)
    /\ lastEvent' = [kind |-> "logoCycle", pre |-> logo.currentIndex]
    /\ UNCHANGED <<domReady, documentHidden, windowAudioSystem, audioVars, themeVars,
                   sceneVars, navVars, formVars, fieldVars,
                   elements, listeners, raised, navbar, scrollVars>>

(***************************************************************************)
(* Initial state: the scripts are loaded, no handler has run yet.          *)
(***************************************************************************)
Themes == {"light", "dark"}

InitPage ==
    /\ domReady = FALSE
    /\ documentHidden = FALSE
    \* const audioSystem in the DOMContentLoaded handler is a local: nothing
    \* in either script assigns window.audioSystem
    /\ windowAudioSystem = "undefined"
    /\ lastEvent = [kind |-> "load", pre |-> "none"]
    /\ audioSupported \in BOOLEAN
    /\ audioSystem = NewAudioSystem
    /\ liveSources = {}
    /\ nextSource = 1
    /\ toggleCalls = 0
    /\ lastInvoked = "none"
    /\ dataTheme \in Themes \cup {"none"}
    /\ storedTheme \in Themes \cup {"none"}
    /\ prefersDark \in BOOLEAN
    /\ themeManager = [currentTheme |-> "none"]
    /\ threeScene = [constructed |-> FALSE, meshColor |-> 0, particlesColor |-> 0]
    /\ mutationPending = FALSE
    /\ lastRender = [theme |-> "none", mesh |-> 0, particles |-> 0]
    /\ mobileNav = [toggleActive |-> FALSE, menuActive |-> FALSE]
    /\ navTrail = <<>>

InitForm ==
    /\ formFields = ""
    /\ submitButton = [textContent |-> InitialLabel, disabled |-> FALSE]
    /\ resultDiv = [present |-> "form-result" \in elements, display |-> "none", textContent |-> "",
                    background |-> ""]
    /\ inFlight = <<>>
    /\ timers = {}
    /\ now = 0
    /\ bannerShownAt = 0

InitField ==
    /\ field = [constructed |-> FALSE]
    /\ rng = 0
    /\ lastFill = [theme |-> "none", tint |-> "none"]
    /\ frames = 0

\* The document holds the elements els; no component has run.
InitDocument(els) ==
    /\ elements = els
    /\ listeners = {}
    /\ raised = {}
    /\ navbar = [boxShadow |-> ""]
    /\ logo = [currentIndex |-> 0, shown |-> "none"]

\* The page is at the top; its sections and nav links are as given.
InitScroll(secs, hrefs) ==
    /\ pageYOffset = 0
    /\ sections = secs
    /\ navLinks = [i \in 1..Len(hrefs) |-> [href |-> hrefs[i], color |-> ""]]

\* The page with every looked-up element in place.
Init ==
    /\ InitDocument(Lookups)
    /\ InitScroll(PageSections, PageLinks)
    /\ InitPage /\ InitForm /\ InitField

\* One environment, for the components that do not read it.
InitPlain ==
    Init /\ audioSupported /\ ~prefersDark /\ dataTheme = "none" /\ storedTheme = "none"

\* The documents explored for missing elements: one element missing, or all.
SparseDocuments ==
    {Lookups \ {e} : e \in Lookups} \cup {{}}

\* A document that lacks some of the looked-up elements.
InitSparse ==
    /\ \E els \in SparseDocuments : InitDocument(els)
    /\ InitScroll(PageSections, PageLinks)
    /\ InitPage /\ InitForm /\ InitField
    /\ audioSupported /\ ~prefersDark /\ dataTheme = "none" /\ storedTheme = "none"

\* A document with any of the section layouts and link lists, with or without
\* the nav bar.
InitScrolling ==
    /\ \E els \in {Lookups, Lookups \ {".nav"}} : InitDocument(els)
    /\ \E secs \in SectionLayouts, hrefs \in LinkLists : InitScroll(secs, hrefs)
    /\ InitPage /\ InitForm /\ InitField
    /\ audioSupported /\ ~prefersDark /\ dataTheme = "none" /\ storedTheme = "none"

(***************************************************************************)
(* The page's handlers                               src/script.js 535-603 *)
(***************************************************************************)
\* The DOMContentLoaded handler: new AudioSystem() (its constructor calls
\* initAudio), new ThemeManager() (its constructor writes the attribute), the
\* other components (each registers its listeners if its elements exist;
\* LogoCycler shows its first logo), and the theme preload.
DOMContentLoaded ==
    /\ ~domReady
    /\ ~mutationPending
    /\ domReady' = TRUE
    /\ \E st \in NewContextStates : audioSystem' = initAudio(NewAudioSystem, st)
    /\ LET t == preloadTheme(NewThemeManager)
       IN  /\ themeManager' = t
           /\ SetDataTheme(t.currentTheme)
    /\ listeners' = listeners \cup MobileNavInit(elements) \cup ContactFormInit(elements)
                       \cup NavbarScrollInit(elements) \cup LogoCyclerInit(elements)
    /\ logo' = IF "logo" \in elements THEN updateLogo(logo) ELSE logo
    /\ lastEvent' = [kind |-> "DOMContentLoaded", pre |-> dataTheme]
    /\ UNCHANGED <<documentHidden, windowAudioSystem, audioSupported, liveSources,
                   nextSource, toggleCalls, lastInvoked, storedTheme, prefersDark,
                   threeScene, lastRender, navVars, formVars, fieldVars,
                   elements, raised, navbar, scrollVars>>

\* A click on #audioToggle: audioSystem.toggle().  The click also reaches the
\* document listener of MobileNav; the button lies inside the menu or outside.
AudioToggleClick ==
    /\ domReady
    /\ ~mutationPending
    /\ toggleCalls < MaxCalls
    /\ \E st \in NewContextStates, where \in {"menu", "outside"} :
         LET b == toggle(audioSystem, st, nextSource)
         IN  /\ audioSystem' = b
             /\ liveSources' = SourcesAfter(audioSystem, b)
             /\ nextSource' = IF b.source = nextSource THEN nextSource + 1 ELSE nextSource
             /\ mobileNav' = dispatchDocumentClick(mobileNav, where, listeners)
             /\ navTrail' = Trail(navTrail, where, mobileNav)
    /\ toggleCalls' = toggleCalls + 1
    /\ lastInvoked' = Invoked(audioSystem)
    /\ lastEvent' = [kind |-> "audioToggle", pre |-> audioSystem.isPlaying]
    /\ UNCHANGED <<domReady, documentHidden, windowAudioSystem, audioSupported,
                   themeVars, sceneVars, formVars, fieldVars,
                   docVars, scrollVars>>

\* audioContext.resume() settles: the context runs.
AudioContextResumed ==
    /\ audioSystem.audioContext = "resuming"
    /\ audioSystem' = [audioSystem EXCEPT !.audioContext = "running"]
    /\ lastEvent' = [kind |-> "resumed", pre |-> audioSystem.isPlaying]
    /\ UNCHANGED <<domReady, documentHidden, windowAudioSystem, audioSupported,
                   liveSources, nextSource, toggleCalls, lastInvoked,
                   themeVars, sceneVars, navVars, formVars, fieldVars,
                   docVars, scrollVars>>

\* A direct call of play() on the instance.
AudioPlay ==
    /\ domReady
    /\ ~mutationPending
    /\ nextSource <= MaxCalls
    /\ \E st \in NewContextStates :
         LET b == play(audioSystem, st, nextSource)
         IN  /\ audioSystem' = b
             /\ liveSources' = SourcesAfter(audioSystem, b)
             /\ nextSource' = IF b.source = nextSource THEN nextSource + 1 ELSE nextSource
    /\ lastEvent' = [kind |-> "play", pre |-> audioSystem]
    /\ UNCHANGED <<domReady, documentHidden, windowAudioSystem, audioSupported,
                   toggleCalls, lastInvoked, themeVars, sceneVars, navVars,
                   formVars, fieldVars, docVars, scrollVars>>

\* A direct call of pause() on the instance.
AudioPause ==
    /\ domReady
    /\ ~mutationPending
    /\ LET b == pause(audioSystem)
       IN  /\ audioSystem' = b
           /\ liveSources' = SourcesAfter(audioSystem, b)
    /\ lastEvent' = [kind |-> "pause", pre |-> audioSystem]
    /\ UNCHANGED <<domReady, documentHidden, windowAudioSystem, audioSupported,
                   nextSource, toggleCalls, lastInvoked, themeVars, sceneVars,
                   navVars, formVars, fieldVars, docVars, scrollVars>>

\* The document becomes hidden or visible again; the listener registered at
\* the top level of script.js runs.
VisibilityChange ==
    /\ ~mutationPending
    /\ documentHidden' = ~documentHidden
    /\ LET b == visibilityHandler(audioSystem, ~documentHidden)
       IN  /\ audioSystem' = b
           /\ liveSources' = SourcesAfter(audioSystem, b)
    /\ lastEvent' = [kind |-> "visibilitychange", pre |-> audioSystem.isPlaying]
    /\ UNCHANGED <<domReady, windowAudioSystem, audioSupported, nextSource,
                   toggleCalls, lastInvoked, themeVars, sceneVars, navVars,
                   formVars, fieldVars,
                   docVars, scrollVars>>

\* A click on the mobile toggle, on a menu link, elsewhere in the menu, or
\* outside both: the listeners MobileNav.init registered run.
NavClick ==
    /\ domReady
    /\ ~mutationPending
    /\ \E target \in TargetsPresent(elements) :
         /\ mobileNav' = dispatchClick(mobileNav, target, listeners)
         /\ navTrail' = Trail(navTrail, target, mobileNav)
    /\ lastEvent' = [kind |-> "click", pre |-> mobileNav.menuActive]
    /\ UNCHANGED <<domReady, documentHidden, windowAudioSystem, audioVars,
                   themeVars, sceneVars, formVars, fieldVars,
                   docVars, scrollVars>>

\* A click on #themeToggle: themeManager.toggle() flips the theme, writes the
\* attribute and stores the value.  The click also reaches the document
\* listener of MobileNav.
ThemeToggleClick ==
    /\ domReady
    /\ ~mutationPending
    /\ LET t == flipTheme(themeManager)
       IN  /\ themeManager' = t
           /\ SetDataTheme(t.currentTheme)
           /\ storedTheme' = t.currentTheme
    /\ \E where \in {"menu", "outside"} :
         /\ mobileNav' = dispatchDocumentClick(mobileNav, where, listeners)
         /\ navTrail' = Trail(navTrail, where, mobileNav)
    /\ lastEvent' = [kind |-> "themeToggle", pre |-> dataTheme]
    /\ UNCHANGED <<domReady, documentHidden, windowAudioSystem, audioVars, prefersDark,
                   threeScene, lastRender, formVars, fieldVars,
                   docVars, scrollVars>>

\* new ThreeScene(): init(), createScene(), setupEventListeners() (from here on
\* attribute changes are observed), and animate(), which renders a frame.
\* The module runs it at load or at DOMContentLoaded: before or after the
\* handler of script.js.  Without #three-container, init() throws at
\* this.container.appendChild and the constructor ends there.
ThreeSceneConstruct ==
    /\ ~threeScene.constructed
    /\ "ThreeScene.init" \notin raised
    /\ ~mutationPending
    /\ IF "three-container" \in elements
       THEN /\ threeScene' = createScene
            /\ lastRender' = Rendered(createScene)
            /\ raised' = raised
       ELSE /\ raised' = raised \cup {"ThreeScene.init"}
            /\ UNCHANGED <<threeScene, lastRender>>
    /\ lastEvent' = [kind |-> "threeScene", pre |-> dataTheme]
    /\ UNCHANGED <<domReady, documentHidden, windowAudioSystem, audioVars, themeVars,
                   mutationPending, navVars, formVars, fieldVars,
                   elements, listeners, navbar, logo, scrollVars>>

\* The MutationObserver callback, run at the end of the task that changed the
\* attribute: updateTheme().
MutationCallback ==
    /\ mutationPending
    /\ mutationPending' = FALSE
    /\ threeScene' = updateTheme(threeScene)
    /\ lastEvent' = [kind |-> "mutation", pre |-> threeScene.meshColor]
    /\ UNCHANGED <<domReady, documentHidden, windowAudioSystem, audioVars, themeVars,
                   lastRender, navVars, formVars, fieldVars,
                   docVars, scrollVars>>

\* An animation frame of the scene: animate() renders it.
ThreeAnimate ==
    /\ threeScene.constructed
    /\ ~mutationPending
    /\ lastRender' = Rendered(threeScene)
    /\ lastEvent' = [kind |-> "render", pre |-> lastRender.theme]
    /\ UNCHANGED <<domReady, documentHidden, windowAudioSystem, audioVars, themeVars,
                   threeScene, mutationPending, navVars, formVars, fieldVars,
                   docVars, scrollVars>>

(***************************************************************************)
(* Specifications                                                          *)
(***************************************************************************)
\* The page as wired by DOMContentLoaded: audio toggle, visibility, mobile nav.
NextPage ==
    \/ DOMContentLoaded
    \/ AudioToggleClick
    \/ AudioContextResumed
    \/ VisibilityChange
    \/ NavClick

SpecPage ==
    Init /\ [][NextPage]_vars

\* The theme, and the two renderers that follow it.
NextTheme ==
    \/ DOMContentLoaded
    \/ ThemeToggleClick
    \/ ThreeSceneConstruct
    \/ MutationCallback
    \/ ThreeAnimate
    \/ ParticleConstruct
    \/ ParticleAnimate

SpecTheme ==
    Init /\ [][NextTheme]_vars

\* The contact form, one submission at a time (the disabled submit button
\* keeps the user from a second one), with a clock for its timers.
SubmitWhenIdle ==
    inFlight = <<>> /\ SubmitEvent

NextFormSequential ==
    \/ DOMContentLoaded
    \/ FormEdit
    \/ SubmitWhenIdle
    \/ FetchSettles
    \/ JsonSettles
    \/ HideTimerFires
    \/ Tick

SpecFormSequential ==
    InitPlain /\ [][NextFormSequential]_vars

\* The contact form under submit events in any overlap, with a clock for its
\* timers.
NextForm ==
    \/ DOMContentLoaded
    \/ FormEdit
    \/ SubmitEvent
    \/ FetchSettles
    \/ JsonSettles
    \/ HideTimerFires
    \/ Tick

SpecForm ==
    InitPlain /\ [][NextForm]_vars

(***************************************************************************)
(* Claims                                                                  *)
(***************************************************************************)
\* C1: when ambient audio is playing and a visibilitychange event fires with
\* the document hidden, the listener has paused the AudioSystem once it has
\* run: isPlaying is false and no source is held.
C1_HiddenPausesAudio ==
    (lastEvent.kind = "visibilitychange" /\ documentHidden /\ lastEvent.pre = TRUE)
        => (~audioSystem.isPlaying /\ audioSystem.source = 0)

\* C2: from a fresh AudioSystem, the n-th toggle() invokes play() when n is
\* odd and pause() when n is even; with a context and a buffer available,
\* isPlaying is true after an odd call and false after an even one.
C2_ToggleAlternates ==
    toggleCalls > 0 =>
        /\ lastInvoked = (IF toggleCalls % 2 = 1 THEN "play" ELSE "pause")
        /\ (audioSystem.audioContext # "null" /\ audioSystem.audioBuffer)
               => (audioSystem.isPlaying <=> (toggleCalls % 2 = 1))

C2_Witness ==
    /\ toggleCalls = 3
    /\ lastInvoked = "play"
    /\ audioSystem.isPlaying
    /\ audioSystem.audioBuffer

\* C3: a submission answered with a true success flag resets the fields and
\* shows the success text; one answered with a false flag, a rejected fetch
\* and an unparsable body each leave the fields as they were and show the
\* same error text.
C3_OutcomeDecidesBannerAndFields ==
    lastEvent.kind = "settled" =>
        /\ resultDiv.display = "block"
        /\ IF lastEvent.pre.outcome = "success"
           THEN formFields = "" /\ resultDiv.textContent = SuccessText
           ELSE formFields = lastEvent.pre.fields /\ resultDiv.textContent = ErrorText

C3_Witness ==
    /\ lastEvent.kind = "settled"
    /\ lastEvent.pre.outcome = "success"
    /\ lastEvent.pre.fields = "typed"
    /\ formFields = ""
    /\ resultDiv.textContent = SuccessText

\* C4: a banner is hidden exactly BannerDelay seconds after the showMessage
\* call that displayed it, never earlier by the timer of an earlier banner.
C4_BannerLastsFiveSeconds ==
    (lastEvent.kind = "hideTimer" /\ lastEvent.pre = "block")
        => now - bannerShownAt = BannerDelay

\* C5: while a submission's network call is pending the submit control is
\* disabled and labelled 'Sending...'; once the handlers have finished it is
\* enabled and carries the label it had before any submission started.
C5_SubmitControlRestored ==
    domReady =>
        /\ inFlight # <<>> =>
               (submitButton.disabled /\ submitButton.textContent = SendingLabel)
        /\ inFlight = <<>> =>
               (~submitButton.disabled /\ submitButton.textContent = InitialLabel)

\* C6: once ThemeManager is constructed the data-theme attribute equals
\* currentTheme and is 'light' or 'dark'; each toggle() changes it to the
\* other value and leaves the stored 'theme' equal to the attribute.
C6_ThemeAttributeFollowsManager ==
    domReady =>
        /\ dataTheme = themeManager.currentTheme
        /\ dataTheme \in Themes
        /\ lastEvent.kind = "themeToggle" =>
               (lastEvent.pre \in Themes /\ dataTheme # lastEvent.pre /\ storedTheme = dataTheme)

C6_Witness ==
    /\ lastEvent.kind = "themeToggle"
    /\ lastEvent.pre = "dark"
    /\ dataTheme = "light"
    /\ storedTheme = "light"
    /\ prefersDark

\* C7: every frame the scene renders shows mesh and particles in the accent
\* of the attribute as it is at that frame (0x6366f1 for dark, 0x8b5cf6
\* otherwise), and every frame of the particle field clears with the tint of
\* the attribute as it is at that frame.
C7_RenderersFollowTheme ==
    /\ threeScene.constructed =>
           /\ lastRender.mesh = AccentFor(lastRender.theme)
           /\ lastRender.particles = AccentFor(lastRender.theme)
    /\ lastEvent.kind = "render" => lastRender.theme = dataTheme
    /\ field.constructed =>
           lastFill.tint = (IF lastFill.theme = "dark" THEN "rgba(10, 11, 15, 0.1)"
                            ELSE "rgba(255, 255, 255, 0.1)")
    /\ lastEvent.kind = "animate" => lastFill.theme = dataTheme

C7_Witness ==
    /\ lastEvent.kind = "render"
    /\ lastEvent.pre = "light"
    /\ lastRender.theme = "dark"
    /\ lastRender.mesh = AccentDark
    /\ lastRender.particles = AccentDark
    /\ lastFill.theme = "dark"
    /\ frames > 0

\* Dot product of two plane vectors.
Dot(a, b) ==
    a[1] * b[1] + a[2] * b[2]

\* The sign of (total displacement of the last frame) . (particle - pointer
\* at the start of the frame): the displacement is the velocity plus the
\* repulsion push / pushDen, scaled here by the positive pushDen.
TotalDisplacementDot(p) ==
    IF p.frame.pushDen = 0
    THEN Dot(p.frame.velocity, p.frame.offset)
    ELSE Dot(p.frame.velocity, p.frame.offset) * p.frame.pushDen
             + Dot(p.frame.push, p.frame.offset)

\* The particle's offset from the pointer after the velocity step of the
\* last frame.
OffsetAfterVelocity(p) ==
    <<p.frame.offset[1] + p.frame.velocity[1], p.frame.offset[2] + p.frame.velocity[2]>>

Particles ==
    {field.particles[i] : i \in 1..Len(field.particles)}

\* C8 as claimed: every particle within the pointer's radius at the start of
\* a frame has, over that frame, a displacement d with d . (particle -
\* pointer) > 0.
C8_MovesAwayFromPointer ==
    lastEvent.kind = "animate" =>
        \A p \in Particles : p.frame.near => (~p.nan /\ TotalDisplacementDot(p) > 0)

\* C8 as amended: a particle whose distance from the pointer after its
\* velocity step is positive and below the radius receives a repulsion r with
\* r . (particle' - pointer) > 0, particle' being its position after the
\* velocity step.
C8_RepulsionPointsAway ==
    (lastEvent.kind = "animate" /\ lastEvent.pre = TRUE) =>
        \A p \in Particles :
            (~p.nan /\ Dot(OffsetAfterVelocity(p), OffsetAfterVelocity(p))
                          < (MouseRadius * Scale) * (MouseRadius * Scale))
                => /\ p.frame.pushDen > 0
                   /\ Dot(p.frame.push, OffsetAfterVelocity(p)) > 0

C8_Witness ==
    /\ lastEvent.kind = "animate"
    /\ \E p \in Particles :
          /\ p.frame.near
          /\ p.frame.pushDen > 0
          /\ TotalDisplacementDot(p) < 0
          /\ Dot(p.frame.push, OffsetAfterVelocity(p)) > 0

InCanvas(x, y) ==
    0 <= x /\ x <= field.width /\ 0 <= y /\ y <= field.height

\* C9 as claimed: after construction and after every resize the set holds
\* exactly 50 particles, each within the canvas, none from the previous set.
C9_ParticlesWithinCanvas ==
    lastEvent.kind \in {"construct", "resize"} =>
        /\ Len(field.particles) = particleCount
        /\ \A p \in Particles : InCanvas(p.x, p.y) /\ p.born = field.generation

\* C9 as amended: that holds after every resize; after construction the set
\* holds exactly 50 new particles, each one velocity step (the constructor's
\* first animate()) away from a position within the canvas.
C9_RegeneratedWithinCanvas ==
    /\ lastEvent.kind = "resize" =>
           /\ Len(field.particles) = particleCount
           /\ \A p \in Particles : InCanvas(p.x, p.y) /\ p.born = field.generation
    /\ lastEvent.kind = "construct" =>
           /\ Len(field.particles) = particleCount
           /\ \A p \in Particles :
                 /\ InCanvas(p.x - p.frame.velocity[1], p.y - p.frame.velocity[2])
                 /\ 4 * p.frame.velocity[1] \in -Scale..Scale
                 /\ 4 * p.frame.velocity[2] \in -Scale..Scale
                 /\ p.born = field.generation

C9_Witness ==
    /\ lastEvent.kind = "resize"
    /\ field.generation = 2
    /\ field.width > 0
    /\ frames > 0
    /\ Len(field.particles) = particleCount

\* C10: the toggle and the menu carry the same open/closed state; two
\* consecutive toggle clicks return to the state before them; a click on a
\* menu link, and a click outside both elements, leave the menu closed.
C10_MobileNavConsistent ==
    /\ mobileNav.toggleActive = mobileNav.menuActive
    /\ (Len(navTrail) = 2 /\ navTrail[1].target = "toggle" /\ navTrail[2].target = "toggle")
           => mobileNav = navTrail[1].before
    /\ (navTrail # <<>> /\ navTrail[Len(navTrail)].target \in {"link", "outside"})
           => (~mobileNav.menuActive /\ ~mobileNav.toggleActive)

C10_Witness ==
    /\ Len(navTrail) = 2
    /\ navTrail[1].target = "toggle"
    /\ navTrail[2].target = "outside"
    /\ navTrail[2].before.menuActive
    /\ ~mobileNav.menuActive

\* The particle field alone.
NextField ==
    \/ ParticleConstruct
    \/ ParticleResize
    \/ ParticleMouseMove
    \/ ParticleMouseLeave
    \/ ParticleAnimate

SpecField ==
    InitPlain /\ [][NextField]_vars

(***************************************************************************)
(* Documents with missing elements                                         *)
(***************************************************************************)
\* Every component that looks an element up, on a document that lacks some of
\* them: construction, then the events and timers the components listen to.
\* Scroll events across the nav bar's shadow threshold only.
ScrollAcrossShadow ==
    Scroll /\ pageYOffset' \in {ShadowOffset, ShadowOffset + 1}

NextSparse ==
    \/ DOMContentLoaded
    \/ ThreeSceneConstruct
    \/ ThreeAnimate
    \/ NavClick
    \/ SubmitWhenIdle
    \/ FetchSettles
    \/ JsonSettles
    \/ ScrollAcrossShadow
    \/ LogoTimeout
    \/ LogoCycle

SpecSparse ==
    InitSparse /\ [][NextSparse]_vars

\* What each component has done with a missing element: nothing.
MissingElementsUntouched ==
    /\ ("mobileToggle" \notin elements \/ ".nav-menu" \notin elements) =>
           /\ "MobileNav.click" \notin listeners
           /\ mobileNav = [toggleActive |-> FALSE, menuActive |-> FALSE]
    /\ "contactForm" \notin elements =>
           /\ "ContactForm.submit" \notin listeners
           /\ inFlight = <<>>
           /\ resultDiv.display = "none"
    /\ "form-result" \notin elements =>
           /\ resultDiv.display = "none"
           /\ resultDiv.textContent = ""
           /\ timers = {}
    /\ "button[type=submit]" \notin elements =>
           /\ inFlight = <<>>
           /\ submitButton = [textContent |-> InitialLabel, disabled |-> FALSE]
    /\ ".nav" \notin elements =>
           /\ "NavbarScroll.scroll" \notin listeners
           /\ navbar.boxShadow = ""
    /\ "logo" \notin elements =>
           /\ listeners \cap {"LogoCycler.timeout", "LogoCycler.interval"} = {}
           /\ logo = [currentIndex |-> 0, shown |-> "none"]
    /\ "three-container" \notin elements =>
           /\ ~threeScene.constructed
           /\ lastRender.theme = "none"

\* C11: when an element a component looks up is absent, the component's
\* construction and its later handlers raise no error and do nothing.
C11_AbsentElementsNoOp ==
    /\ raised = {}
    /\ MissingElementsUntouched

(***************************************************************************)
(* The active nav link                                                     *)
(***************************************************************************)
\* Scroll events over any of the section layouts and link lists.
NextScroll ==
    \/ DOMContentLoaded
    \/ Scroll

SpecScroll ==
    InitScrolling /\ [][NextScroll]_vars

\* The sections whose top minus the look-ahead is at or below the offset.
SectionsPassed ==
    {i \in 1..Len(sections) : sections[i].top - Lookahead <= pageYOffset}

\* The last of them in document order.
LastPassed ==
    CHOOSE i \in SectionsPassed : \A j \in SectionsPassed : j <= i

Accented(link) ==
    link.color = "var(--accent-primary)"

\* The first part of C12: with a section passed, exactly the links whose href
\* is '#' followed by the id of the last one passed carry the accent, and the
\* others have no color.
LinksFollowLastPassed ==
    (lastEvent.kind = "scroll" /\ SectionsPassed # {}) =>
        \A i \in 1..Len(navLinks) :
            /\ Accented(navLinks[i]) <=> navLinks[i].href = "#" \o sections[LastPassed].id
            /\ ~Accented(navLinks[i]) => navLinks[i].color = ""

\* C12: after a scroll event the links of the last section passed, and only
\* they, carry the accent color; with no section passed no link carries it.
C12_ActiveLinkFollowsScroll ==
    /\ LinksFollowLastPassed
    /\ (lastEvent.kind = "scroll" /\ SectionsPassed = {}) =>
           \A i \in 1..Len(navLinks) : navLinks[i].color = ""

(***************************************************************************)
(* The AudioSystem under any calls                                         *)
(***************************************************************************)
\* play(), pause() and toggle() in any order on the instance the page creates.
NextAudio ==
    \/ DOMContentLoaded
    \/ AudioPlay
    \/ AudioPause
    \/ AudioToggleClick
    \/ AudioContextResumed

SpecAudio ==
    Init /\ [][NextAudio]_vars

\* C13: isPlaying is true exactly when source holds a handle; at most one
\* handle is started and not stopped, and it is the one held; play() while
\* playing creates no handle; pause() while not playing changes no field.
C13_PlaybackHandleConsistent ==
    domReady =>
        /\ audioSystem.isPlaying <=> audioSystem.source # 0
        /\ Cardinality(liveSources) <= 1
        /\ liveSources = (IF audioSystem.source # 0 THEN {audioSystem.source} ELSE {})
        /\ (lastEvent.kind = "play" /\ lastEvent.pre.isPlaying) =>
               /\ audioSystem.source = lastEvent.pre.source
               /\ audioSystem.isPlaying
        /\ (lastEvent.kind = "pause" /\ ~lastEvent.pre.isPlaying) =>
               audioSystem = lastEvent.pre

\* pause() was called while nothing played, after play() and toggle() had
\* started sources and pause() or toggle() had stopped them.
C13_Witness ==
    /\ lastEvent.kind = "pause"
    /\ ~lastEvent.pre.isPlaying
    /\ lastEvent.pre.audioBuffer
    /\ nextSource > 2
    /\ toggleCalls > 0

====
